---------------------------- MODULE Spec2Model ----------------------------
(***************************************************************************)
(* FLASH bridge: the MXE coordinator program (flash-bridge-mxe/programs),  *)
(* the encrypted instructions it queues (flash-bridge-mxe/encrypted-ixs)   *)
(* and the zenZEC reserve ledger (programs/zenz_bridge).                   *)
(*                                                                         *)
(* A u64 that takes part in arithmetic is held as its 8 little-endian      *)
(* bytes, so that multiplication, subtraction and division have the full   *)
(* 64-bit width and overflow happens exactly at 2^64.                      *)
(***************************************************************************)
EXTENDS Integers, Sequences, FiniteSets, TLC

(***************************************************************************)
(* u64 arithmetic on little-endian byte sequences                          *)
(***************************************************************************)

\* size_of::<u64>(): the slice zen_bytes[..8] and u64::from_le_bytes
U64Len ==
  8

RECURSIVE ToLeBytes(_, _)
\* n.to_le_bytes() for a value n held as a number: len bytes, least significant first
ToLeBytes(n, len) ==
  IF len = 0 THEN <<>> ELSE <<n % 256>> \o ToLeBytes(n \div 256, len - 1)

\* a u64 literal or small argument, as the 8 bytes of the machine word
U64Of(n) ==
  ToLeBytes(n, U64Len)

\* 2^32 and 2^63 as u64, u64::MAX
Pow32 == <<0, 0, 0, 0, 1, 0, 0, 0>>

Pow63 == <<0, 0, 0, 0, 0, 0, 0, 128>>

MaxU64 == <<255, 255, 255, 255, 255, 255, 255, 255>>

RECURSIVE SeqSum(_)
SeqSum(s) ==
  IF s = <<>> THEN 0 ELSE Head(s) + SeqSum(Tail(s))

\* column k of the schoolbook product of two byte sequences
MulColumn(a, b, k) ==
  SeqSum([i \in 1..Len(a) |->
            IF (k + 1 - i) \in 1..Len(b) THEN a[i] * b[k + 1 - i] ELSE 0])

RECURSIVE Propagate(_, _, _)
\* carry propagation over the columns from k on
Propagate(cols, k, carry) ==
  IF k > Len(cols) THEN <<>>
  ELSE LET t == cols[k] + carry
       IN  <<t % 256>> \o Propagate(cols, k + 1, t \div 256)

\* the exact product of two byte sequences, Len(a) + Len(b) bytes
MulWide(a, b) ==
  Propagate([k \in 1..(Len(a) + Len(b)) |-> MulColumn(a, b, k)], 1, 0)

\* the bytes of a wide value above the machine word are all zero
FitsU64(p) ==
  \A i \in (U64Len + 1)..Len(p) : p[i] = 0

\* the machine word of a wide value: its low 8 bytes (the value modulo 2^64)
LowU64(p) ==
  SubSeq(p, 1, U64Len)

RECURSIVE SubBorrow(_, _, _, _)
\* a - b byte by byte from byte i on; the last element is the final borrow
SubBorrow(a, b, i, borrow) ==
  IF i > U64Len THEN <<borrow>>
  ELSE LET t == a[i] - b[i] - borrow
       IN  IF t < 0 THEN <<t + 256>> \o SubBorrow(a, b, i + 1, 1)
           ELSE <<t>> \o SubBorrow(a, b, i + 1, 0)

RECURSIVE DivBytes(_, _, _, _)
\* long division of bytes 1..i of a by the small divisor d, most significant
\* byte first; rem is the remainder carried in from the bytes above i
DivBytes(a, d, i, rem) ==
  IF i = 0 THEN <<>>
  ELSE LET cur == rem * 256 + a[i]
       IN  DivBytes(a, d, i - 1, cur % d) \o <<cur \div d>>

\* a / d on u64 (d a small non-zero literal)
DivU64(a, d) ==
  DivBytes(a, d, Len(a), 0)

\* a < b on byte sequences of the same length
LessBytes(a, b) ==
  \E i \in 1..Len(a) :
    /\ a[i] < b[i]
    /\ \A j \in (i + 1)..Len(a) : a[j] = b[j]

(***************************************************************************)
(* Outcome of one encrypted instruction: a value handed to from_arcis, or  *)
(* a panic (the computation aborts and nothing is sealed).                 *)
(***************************************************************************)
Returned(v) ==
  [ok |-> TRUE, value |-> v]

\* a formatted message (panic!, msg!): the format string and the values
\* interpolated into it
Fmt(text, args) ==
  [text |-> text, args |-> args]

Panicked(msg) ==
  [ok |-> FALSE, message |-> msg]

\* `a * b` on u64.  With overflow checks (a debug build) an overflowing
\* product panics; without them (a release build) it wraps modulo 2^64.
MulU64(a, b, checks) ==
  LET p == MulWide(a, b)
  IN  IF ~FitsU64(p) /\ checks
      THEN Panicked(Fmt("attempt to multiply with overflow", <<>>))
      ELSE Returned(LowU64(p))

RECURSIVE AddCarry(_, _, _, _)
\* a + b byte by byte from byte i on; the last element is the final carry
AddCarry(a, b, i, carry) ==
  IF i > U64Len THEN <<carry>>
  ELSE LET t == a[i] + b[i] + carry
       IN  <<t % 256>> \o AddCarry(a, b, i + 1, t \div 256)

\* `a + b` on u64: panics on overflow with overflow checks, wraps without
AddU64(a, b, checks) ==
  LET s == AddCarry(a, b, 1, 0)
  IN  IF s[U64Len + 1] = 1 /\ checks
      THEN Panicked(Fmt("attempt to add with overflow", <<>>))
      ELSE Returned(SubSeq(s, 1, U64Len))

\* `a - b` on u64: panics on underflow with overflow checks, wraps without
SubU64(a, b, checks) ==
  LET d == SubBorrow(a, b, 1, 0)
  IN  IF d[U64Len + 1] = 1 /\ checks
      THEN Panicked(Fmt("attempt to subtract with overflow", <<>>))
      ELSE Returned(SubSeq(d, 1, U64Len))

(***************************************************************************)
(* Encrypted instructions (bridge_privacy.rs)                              *)
(***************************************************************************)

\* the literal 100 of `(100 - slippage_tolerance) / 100`
PercentBase ==
  100

\* the haircut with the division done first: sol_amount / 100 * (100 - slippage)
ApplySlippageDivFirst(sol_amount, slippage_tolerance, checks) ==
  LET keep == SubU64(U64Of(PercentBase), slippage_tolerance, checks)
  IN  IF ~keep.ok THEN keep
      ELSE MulU64(DivU64(sol_amount, PercentBase), keep.value, checks)

\* let min_amount = sol_amount * (100 - data.slippage_tolerance) / 100;
ApplySlippage(sol_amount, slippage_tolerance, checks) ==
  LET keep == SubU64(U64Of(PercentBase), slippage_tolerance, checks)
  IN  IF ~keep.ok THEN keep
      ELSE LET haircut == MulU64(sol_amount, keep.value, checks)
           IN  IF ~haircut.ok THEN haircut
               ELSE Returned(DivU64(haircut.value, PercentBase))

\* calculate_swap_amount(swap_data): `checks` is whether the build traps
\* integer overflow (it panics) or not (it wraps)
calculate_swap_amount(data, checks) ==
  IF Len(data.zen_amount) < U64Len
  THEN Panicked(Fmt("range end index 8 out of range for slice", <<>>))
  ELSE LET zen_amount == SubSeq(data.zen_amount, 1, U64Len)
           sol_amount == MulU64(zen_amount, data.exchange_rate, checks)
       IN  IF ~sol_amount.ok THEN sol_amount
           ELSE ApplySlippage(sol_amount.value, data.slippage_tolerance, checks)

\* encrypt_btc_address: data.address.len() < 26 || data.address.len() > 62
MinBtcAddressLen ==
  26

MaxBtcAddressLen ==
  62

\* encrypt_btc_address(btc_data); a String is held as its UTF-8 bytes, so
\* len() is Len and as_bytes().to_vec() keeps the bytes
encrypt_btc_address(data) ==
  IF Len(data.address) < MinBtcAddressLen \/ Len(data.address) > MaxBtcAddressLen
  THEN Panicked(Fmt("Invalid BTC address format", <<>>))
  ELSE Returned(data.address)

\* [u8; 32]
IdLen ==
  32

\* generate_computation_id() at SystemTime nanos: bytes 0..16 are the
\* little-endian u128 timestamp, byte i of 16..32 is (nanos as u8) + i
generate_computation_id(nanos) ==
  [j \in 1..IdLen |->
     IF j <= 16 THEN ToLeBytes(nanos, 16)[j]
     ELSE ((nanos % 256) + (j - 1)) % 256]

\* encrypt_bridge_amount(input_ctxt), run at SystemTime nanos
encrypt_bridge_amount(input, nanos) ==
  IF input.amount = 0
  THEN Panicked(Fmt("Bridge amount cannot be zero", <<>>))
  ELSE Returned([encrypted_amount |-> ToLeBytes(input.amount, U64Len),
                 source_chain     |-> input.source_chain,
                 dest_chain       |-> input.dest_chain,
                 computation_id   |-> generate_computation_id(nanos),
                 privacy_level    |-> "maximum"])

\* verify_bridge_transaction(verification_data): `let result = true;`
verify_bridge_transaction(data) ==
  Returned(TRUE)

RECURSIVE FromLeBytes(_)
\* u64::from_le_bytes(bytes), as a number
FromLeBytes(bytes) ==
  IF bytes = <<>> THEN 0 ELSE Head(bytes) + 256 * FromLeBytes(Tail(bytes))

\* generate_relayer_random(max_value): `random_bytes = [0u8; 8]`, then
\* `random_value % max_value`, which panics for a zero divisor in every build
generate_relayer_random(max_value) ==
  LET random_bytes == [i \in 1..U64Len |-> 0]
      random_value == FromLeBytes(random_bytes)
  IN  IF max_value = 0
      THEN Panicked(Fmt("attempt to calculate the remainder with a divisor of zero", <<>>))
      ELSE Returned(random_value % max_value)

\* verify_sufficient_balance(user_balance, required_amount)
verify_sufficient_balance(balance, required) ==
  Returned(balance >= required)

\* b"FLASH_BRIDGE_V1"
FLASH_BRIDGE_V1 == <<70, 76, 65, 83, 72, 95, 66, 82, 73, 68, 71, 69, 95, 86, 49>>

\* generate_bridge_proof(tx_data), run at SystemTime nanos
generate_bridge_proof(data, nanos) ==
  Returned(ToLeBytes(data.amount, U64Len) \o data.source_chain \o data.dest_chain
             \o ToLeBytes(data.timestamp, U64Len) \o FLASH_BRIDGE_V1
             \o generate_computation_id(nanos))

(***************************************************************************)
(* Helper functions of the sealing operations.  A string that is read as   *)
(* bytes (as_bytes, ==) is held as its UTF-8 bytes.                        *)
(***************************************************************************)
\* "BTC"
BTC == <<66, 84, 67>>

\* "TASK" and "FLASH"
TASK == <<84, 65, 83, 75>>

FLASH == <<70, 76, 65, 83, 72>>

\* dest[from..to].copy_from_slice(src): panics unless the two slices have the
\* same length
CopyFromSlice(dest, from, to, src) ==
  IF Len(src) # to - from
  THEN Panicked(Fmt("source slice length ({}) does not match destination slice length ({})",
                    <<Len(src), to - from>>))
  ELSE Returned([j \in 1..Len(dest) |->
                   IF j > from /\ j <= to THEN src[j - from] ELSE dest[j]])

\* generate_task_id() at SystemTime nanos
generate_task_id(nanos) ==
  LET bytes == ToLeBytes(nanos, 16)
      id0 == [j \in 1..IdLen |-> 0]
      id1 == CopyFromSlice(id0, 0, 8, SubSeq(bytes, 1, 8))
      id2 == IF id1.ok THEN CopyFromSlice(id1.value, 8, 16, TASK) ELSE id1
      id3 == IF id2.ok THEN CopyFromSlice(id2.value, 16, 24, ToLeBytes(nanos, 4)) ELSE id2
      id4 == IF id3.ok THEN CopyFromSlice(id3.value, 24, 32, FLASH) ELSE id3
  IN  id4

\* determine_priority with `amount > 100_000` read as `amount >= 100_000`
determine_priority_inclusive(amount) ==
  IF amount > 1000000 THEN "high"
  ELSE IF amount >= 100000 THEN "standard"
  ELSE "low"

\* determine_priority(amount)
determine_priority(amount) ==
  IF amount > 1000000 THEN "high"
  ELSE IF amount > 100000 THEN "standard"
  ELSE "low"

\* generate_routing_hints(source_chain, dest_chain); b'>' is 62
generate_routing_hints(source_chain, dest_chain) ==
  source_chain \o <<62>> \o dest_chain
    \o <<124, 80, 82, 73, 79, 82, 73, 84, 89, 95, 82, 79, 85, 84, 73, 78, 71, 124>>

\* hex::encode: two hexadecimal digits per byte, the high one first
HexEncode(bytes) ==
  [k \in 1..(2 * Len(bytes)) |->
     IF k % 2 = 1 THEN bytes[(k + 1) \div 2] \div 16 ELSE bytes[k \div 2] % 16]

\* generate_callback_url(computation_id)
generate_callback_url(computation_id) ==
  Fmt("https://api.flash-bridge.com/callback/{}", <<HexEncode(computation_id)>>)

\* hash_user_id(user_pubkey): every byte of the key plus 0x5A, wrapping
hash_user_id(user_pubkey) ==
  [i \in 1..IdLen |-> (user_pubkey[i] + 90) % 256]

\* categorize_amount with `amount < 10_000` read as `amount <= 10_000`
categorize_amount_inclusive(amount) ==
  IF amount <= 10000 THEN "small"
  ELSE IF amount < 100000 THEN "medium"
  ELSE IF amount < 1000000 THEN "large"
  ELSE "xlarge"

\* categorize_amount(amount)
categorize_amount(amount) ==
  IF amount < 10000 THEN "small"
  ELSE IF amount < 100000 THEN "medium"
  ELSE IF amount < 1000000 THEN "large"
  ELSE "xlarge"

\* assess_risk_level with the two chain risks exchanged
assess_risk_level_chain_swapped(amount, source_chain) ==
  LET amount_risk == IF amount > 500000 THEN 3 ELSE IF amount > 50000 THEN 2 ELSE 1
      chain_risk == IF source_chain = BTC THEN 2 ELSE 1
      total_risk == amount_risk + chain_risk
  IN  IF total_risk \in 1..2 THEN "low"
      ELSE IF total_risk \in 3..4 THEN "medium"
      ELSE "high"

\* assess_risk_level(amount, source_chain)
assess_risk_level(amount, source_chain) ==
  LET amount_risk == IF amount > 500000 THEN 3 ELSE IF amount > 50000 THEN 2 ELSE 1
      chain_risk == IF source_chain = BTC THEN 1 ELSE 2
      total_risk == amount_risk + chain_risk
  IN  IF total_risk \in 1..2 THEN "low"
      ELSE IF total_risk \in 3..4 THEN "medium"
      ELSE "high"

\* RelayerTask.timeout
RelayerTimeout ==
  300

\* encrypt_bridge_amount_sealed(input_ctxt, relayer, compliance_officer), with
\* generate_computation_id run at SystemTime nanos and generate_task_id at
\* task_nanos; the value is the triple <<user_tx, relayer_task, compliance_audit>>
encrypt_bridge_amount_sealed(input, nanos, task_nanos) ==
  IF input.amount = 0
  THEN Panicked(Fmt("Bridge amount cannot be zero", <<>>))
  ELSE LET computation_id == generate_computation_id(nanos)
           user_tx == [encrypted_amount |-> ToLeBytes(input.amount, U64Len),
                       source_chain     |-> input.source_chain,
                       dest_chain       |-> input.dest_chain,
                       computation_id   |-> computation_id,
                       privacy_level    |-> "maximum"]
           task_id == generate_task_id(task_nanos)
           relayer_task == [task_id        |-> task_id.value,
                            task_type      |-> "bridge_amount_encryption",
                            priority       |-> determine_priority(input.amount),
                            routing_hints  |-> generate_routing_hints(input.source_chain,
                                                                      input.dest_chain),
                            callback_url   |-> generate_callback_url(computation_id),
                            timeout        |-> RelayerTimeout,
                            computation_id |-> computation_id]
           compliance_audit == [transaction_hash |-> computation_id,
                                user_hash        |-> hash_user_id(input.user_pubkey),
                                amount_category  |-> categorize_amount(input.amount),
                                risk_level       |-> assess_risk_level(input.amount,
                                                                       input.source_chain),
                                compliance_flags |-> <<"amount_verified", "chain_validated",
                                                       "timestamp_recorded">>,
                                blockchain       |-> input.dest_chain,
                                timestamp        |-> input.timestamp]
       IN  IF ~task_id.ok THEN task_id
           ELSE Returned(<<user_tx, relayer_task, compliance_audit>>)

(***************************************************************************)
(* State                                                                   *)
(***************************************************************************)
VARIABLES
  sign_pda_account,   \* MXE program: bump stored in the signer PDA
  mempool,            \* execution fabric: offset -> the computation queued there
  encrypted_tx,       \* offset -> account written by encrypt_bridge_callback
  verification,       \* offset -> account written by verify_bridge_callback
  swap_calculation,   \* offset -> account written by calculate_swap_callback
  encrypted_btc,      \* offset -> account written by encrypt_btc_callback
  now,                \* Clock::get()?.unix_timestamp
  ret,                \* the last instruction: its result and the events it emitted
  history,            \* offset -> results of the callbacks delivered for it
  call,               \* one invocation of an encrypted instruction ...
  result,             \* ... and its outcome
  config,             \* zenz_bridge: the Config account (PDA "config")
  mint,               \* the zenZEC Mint account of the token program
  token_accounts,     \* owner -> amount held in the owner's zenZEC token account
  ledger_ret          \* the last zenz_bridge instruction: result, events, msg! lines

mxe_accounts == <<sign_pda_account, encrypted_tx, verification, swap_calculation, encrypted_btc>>

mxe_vars == <<sign_pda_account, mempool, encrypted_tx, verification,
              swap_calculation, encrypted_btc, now, ret, history>>

circuit_vars == <<call, result>>

ledger_vars == <<config, mint, token_accounts, ledger_ret>>

vars == <<mxe_vars, circuit_vars, ledger_vars>>

(***************************************************************************)
(* Bounds and the inputs the instructions are called with                  *)
(***************************************************************************)
MaxTime ==
  1

MaxCallbacks ==
  2

\* the computation offsets the clients choose from
Offsets == {1, 2}

\* the SystemTime values (nanoseconds) an encrypted instruction runs at
NanoTimes == {0, 1}

\* Pubkey::default(), the value of a Pubkey field nothing has written
DefaultPubkey == "11111111111111111111111111111111"

Amounts == {0, 5}

SourceChains == {"ZEC"}

DestChains == {"SOL"}

Users == {"alice"}

TxHashes == {"tx1"}

ExpectedAmounts == {U64Of(5)}

ZenAmounts == {U64Of(1000)}

ExchangeRates == {U64Of(5)}

Slippages == {U64Of(10)}

\* "1BoatSLRHtKNngkdXEeobR76b53LETtpyT"
GoodBtcAddress ==
  <<49, 66, 111, 97, 116, 83, 76, 82, 72, 116, 75, 78, 110, 103, 107, 100, 88,
    69, 101, 111, 98, 82, 55, 54, 98, 53, 51, 76, 69, 84, 116, 112, 121, 84>>

\* "1BoatSLRHt"
ShortBtcAddress ==
  <<49, 66, 111, 97, 116, 83, 76, 82, 72, 116>>

BtcAddresses == {GoodBtcAddress}

Recipients == {"bob"}

(***************************************************************************)
(* MXE program (flash-bridge-mxe/programs/src/lib.rs)                      *)
(***************************************************************************)
NoComputation == [kind |-> "none"]

\* an account no instruction has written: every field is zero
ZeroId == [j \in 1..IdLen |-> 0]

ZeroEncryptedTx ==
  [user |-> DefaultPubkey, encrypted_amount |-> <<>>, source_chain |-> "",
   dest_chain |-> "", computation_id |-> ZeroId, privacy_level |-> "", bump |-> 0]

ZeroVerification ==
  [tx_hash |-> "", verified |-> FALSE, completed_at |-> 0, bump |-> 0]

ZeroSwapCalculation ==
  [sol_amount |-> U64Of(0), completed_at |-> 0, bump |-> 0]

ZeroEncryptedBtc ==
  [recipient |-> DefaultPubkey, encrypted_address |-> <<>>, completed_at |-> 0,
   bump |-> 0]

NoReturn == [result |-> "none", emitted |-> {}]

NoCall == [fn |-> "none"]

NoResult == [ran |-> FALSE]

Ran(outcome) == [ran |-> TRUE, outcome |-> outcome]

MxeInit ==
  /\ sign_pda_account = 0
  /\ mempool = [o \in Offsets |-> NoComputation]
  /\ encrypted_tx = [o \in Offsets |-> ZeroEncryptedTx]
  /\ verification = [o \in Offsets |-> ZeroVerification]
  /\ swap_calculation = [o \in Offsets |-> ZeroSwapCalculation]
  /\ encrypted_btc = [o \in Offsets |-> ZeroEncryptedBtc]
  /\ now = 0
  /\ ret = NoReturn
  /\ history = [o \in Offsets |-> <<>>]

\* ComputationOutputs<T>
Success(output) == [tag |-> "Success", output |-> output]

Failure == [tag |-> "Failure"]

\* what the encrypted instruction queued at an offset can return, over the
\* time it runs at and over the build's overflow checks
CircuitOutcomes(comp) ==
  CASE comp.kind = "encrypt_bridge_amount" ->
         {encrypt_bridge_amount(comp.args, t) : t \in NanoTimes}
    [] comp.kind = "verify_bridge_transaction" ->
         {verify_bridge_transaction(comp.args)}
    [] comp.kind = "calculate_swap_amount" ->
         {calculate_swap_amount(comp.args, c) : c \in BOOLEAN}
    [] comp.kind = "encrypt_btc_address" ->
         {encrypt_btc_address(comp.args)}
    [] OTHER -> {}

\* the payloads the fabric can hand to the callback registered for comp: the
\* value the instruction returned, or a failure (it panicked, or the fabric
\* aborted the computation)
CallbackOutputs(comp) ==
  {Failure} \cup {Success(r.value) : r \in {x \in CircuitOutcomes(comp) : x.ok}}

\* the instruction returned Err: the transaction is rolled back, nothing it
\* wrote or emitted remains
Rollback(err) ==
  /\ ret' = [result |-> err, emitted |-> {}]
  /\ UNCHANGED <<mxe_accounts, mempool, now>>

\* the instruction returned Ok(()) having emitted event
Committed(event) ==
  /\ ret' = [result |-> "Ok", emitted |-> {event}]
  /\ UNCHANGED now

\* queue_computation(ctx.accounts, computation_offset, args, None, callback, 1)?
\* The fabric creates the computation account of the offset; it fails when
\* that account exists already.
queue_computation(offset, kind, args) ==
  /\ mempool[offset] = NoComputation
  /\ mempool' = [mempool EXCEPT ![offset] = [kind |-> kind, args |-> args]]

\* the `?` after queue_computation, when it fails
QueueFails(offset) ==
  mempool[offset] # NoComputation

\* pub fn encrypt_bridge_amount(ctx, computation_offset, amount, source_chain,
\*                              dest_chain, user_pubkey)
mxe_encrypt_bridge_amount(computation_offset, amount, source_chain, dest_chain, user_pubkey) ==
  LET bridge_data == [amount |-> amount, source_chain |-> source_chain,
                      dest_chain |-> dest_chain, timestamp |-> now,
                      user_pubkey |-> user_pubkey]
      event == [name |-> "BridgeAmountEncrypted", user |-> user_pubkey,
                amount |-> amount, source_chain |-> source_chain,
                dest_chain |-> dest_chain,
                computation_offset |-> computation_offset, timestamp |-> now]
  IN  \/ /\ queue_computation(computation_offset, "encrypt_bridge_amount", bridge_data)
         /\ sign_pda_account' = 255
         /\ Committed(event)
         /\ UNCHANGED <<encrypted_tx, verification, swap_calculation, encrypted_btc, history>>
      \/ /\ QueueFails(computation_offset)
         /\ Rollback("QueueComputationFailed")
         /\ UNCHANGED history

\* pub fn verify_bridge_transaction(ctx, computation_offset, tx_hash,
\*                                  expected_amount, blockchain)
mxe_verify_bridge_transaction(computation_offset, tx_hash, expected_amount, blockchain) ==
  LET verification_data == [tx_hash |-> tx_hash, expected_amount |-> expected_amount,
                            blockchain |-> blockchain, timestamp |-> now]
      event == [name |-> "BridgeVerificationStarted", tx_hash |-> tx_hash,
                blockchain |-> blockchain,
                computation_offset |-> computation_offset, timestamp |-> now]
  IN  \/ /\ queue_computation(computation_offset, "verify_bridge_transaction", verification_data)
         /\ sign_pda_account' = 255
         /\ Committed(event)
         /\ UNCHANGED <<encrypted_tx, verification, swap_calculation, encrypted_btc, history>>
      \/ /\ QueueFails(computation_offset)
         /\ Rollback("QueueComputationFailed")
         /\ UNCHANGED history

\* pub fn calculate_swap_amount(ctx, computation_offset, zen_amount,
\*                              exchange_rate, slippage_tolerance)
mxe_calculate_swap_amount(computation_offset, zen_amount, exchange_rate, slippage_tolerance) ==
  LET swap_data == [zen_amount |-> zen_amount, exchange_rate |-> exchange_rate,
                    slippage_tolerance |-> slippage_tolerance]
      event == [name |-> "SwapCalculationStarted", exchange_rate |-> exchange_rate,
                slippage_tolerance |-> slippage_tolerance,
                computation_offset |-> computation_offset, timestamp |-> now]
  IN  \/ /\ queue_computation(computation_offset, "calculate_swap_amount", swap_data)
         /\ sign_pda_account' = 255
         /\ Committed(event)
         /\ UNCHANGED <<encrypted_tx, verification, swap_calculation, encrypted_btc, history>>
      \/ /\ QueueFails(computation_offset)
         /\ Rollback("QueueComputationFailed")
         /\ UNCHANGED history

\* pub fn encrypt_btc_address(ctx, computation_offset, btc_address, recipient_pubkey)
mxe_encrypt_btc_address(computation_offset, btc_address, recipient_pubkey) ==
  LET btc_data == [address |-> btc_address, recipient_pubkey |-> recipient_pubkey,
                   timestamp |-> now]
      event == [name |-> "BtcAddressEncryptionStarted", recipient |-> recipient_pubkey,
                computation_offset |-> computation_offset, timestamp |-> now]
  IN  \/ /\ queue_computation(computation_offset, "encrypt_btc_address", btc_data)
         /\ sign_pda_account' = 255
         /\ Committed(event)
         /\ UNCHANGED <<encrypted_tx, verification, swap_calculation, encrypted_btc, history>>
      \/ /\ QueueFails(computation_offset)
         /\ Rollback("QueueComputationFailed")
         /\ UNCHANGED history

\* the fabric invokes the callback registered when the computation at the
\* offset was queued (callback_ix) with one of the payloads it can produce
Delivers(offset, kind) ==
  /\ mempool[offset].kind = kind
  /\ Len(history[offset]) < MaxCallbacks

\* the non-Success arm retrying on its own: it queues the aborted computation
\* again under an offset that is still free
Aborts_requeues(offset) ==
  /\ ret' = [result |-> "AbortedComputation", emitted |-> {}]
  /\ mempool' = [o \in Offsets |->
                   IF o # offset /\ mempool[o] = NoComputation THEN mempool[offset]
                   ELSE mempool[o]]
  /\ UNCHANGED <<mxe_accounts, now>>
  /\ history' = [history EXCEPT ![offset] = Append(@, "AbortedComputation")]

\* _ => return Err(ErrorCode::AbortedComputation.into())
Aborts(offset) ==
  /\ Rollback("AbortedComputation")
  /\ history' = [history EXCEPT ![offset] = Append(@, "AbortedComputation")]

\* encrypt_bridge_callback storing the result in one account shared by every
\* computation instead of the account of its own computation
encrypt_bridge_callback_shared_account(offset, output) ==
  /\ IF output.tag = "Success"
     THEN LET res == output.output
              event == [name |-> "BridgeEncryptionComplete",
                        user |-> encrypted_tx[offset].user,
                        computation_id |-> res.computation_id, timestamp |-> now]
          IN  /\ encrypted_tx' = [o \in Offsets |->
                    [encrypted_tx[o] EXCEPT !.encrypted_amount = res.encrypted_amount,
                                            !.source_chain = res.source_chain,
                                            !.dest_chain = res.dest_chain,
                                            !.computation_id = res.computation_id,
                                            !.privacy_level = res.privacy_level,
                                            !.bump = 255]]
              /\ Committed(event)
              /\ history' = [history EXCEPT ![offset] = Append(@, "Ok")]
              /\ UNCHANGED <<sign_pda_account, mempool, verification, swap_calculation, encrypted_btc>>
     ELSE Aborts(offset)

\* pub fn encrypt_bridge_callback(ctx, output)
encrypt_bridge_callback(offset, output) ==
  /\ IF output.tag = "Success"
     THEN LET res == output.output
              event == [name |-> "BridgeEncryptionComplete",
                        user |-> encrypted_tx[offset].user,
                        computation_id |-> res.computation_id, timestamp |-> now]
          IN  /\ encrypted_tx' = [encrypted_tx EXCEPT ![offset] =
                    [@ EXCEPT !.encrypted_amount = res.encrypted_amount,
                              !.source_chain = res.source_chain,
                              !.dest_chain = res.dest_chain,
                              !.computation_id = res.computation_id,
                              !.privacy_level = res.privacy_level,
                              !.bump = 255]]
              /\ Committed(event)
              /\ history' = [history EXCEPT ![offset] = Append(@, "Ok")]
              /\ UNCHANGED <<sign_pda_account, mempool, verification, swap_calculation, encrypted_btc>>
     ELSE Aborts(offset)

\* pub fn verify_bridge_callback(ctx, output)
verify_bridge_callback(offset, output) ==
  /\ IF output.tag = "Success"
     THEN LET verified == output.output
              event == [name |-> "BridgeVerificationComplete",
                        tx_hash |-> verification[offset].tx_hash,
                        verified |-> verified, timestamp |-> now]
          IN  /\ verification' = [verification EXCEPT ![offset] =
                    [@ EXCEPT !.verified = verified, !.completed_at = now, !.bump = 255]]
              /\ Committed(event)
              /\ history' = [history EXCEPT ![offset] = Append(@, "Ok")]
              /\ UNCHANGED <<sign_pda_account, mempool, encrypted_tx, swap_calculation, encrypted_btc>>
     ELSE Aborts(offset)

\* pub fn calculate_swap_callback(ctx, output)
calculate_swap_callback(offset, output) ==
  /\ IF output.tag = "Success"
     THEN LET sol_amount == output.output
              event == [name |-> "SwapCalculationComplete",
                        sol_amount |-> sol_amount, timestamp |-> now]
          IN  /\ swap_calculation' = [swap_calculation EXCEPT ![offset] =
                    [@ EXCEPT !.sol_amount = sol_amount, !.completed_at = now, !.bump = 255]]
              /\ Committed(event)
              /\ history' = [history EXCEPT ![offset] = Append(@, "Ok")]
              /\ UNCHANGED <<sign_pda_account, mempool, encrypted_tx, verification, encrypted_btc>>
     ELSE Aborts(offset)

\* pub fn encrypt_btc_callback(ctx, output)
encrypt_btc_callback(offset, output) ==
  /\ IF output.tag = "Success"
     THEN LET encrypted_address == output.output
              event == [name |-> "BtcAddressEncryptionComplete",
                        recipient |-> encrypted_btc[offset].recipient, timestamp |-> now]
          IN  /\ encrypted_btc' = [encrypted_btc EXCEPT ![offset] =
                    [@ EXCEPT !.encrypted_address = encrypted_address,
                              !.completed_at = now, !.bump = 255]]
              /\ Committed(event)
              /\ history' = [history EXCEPT ![offset] = Append(@, "Ok")]
              /\ UNCHANGED <<sign_pda_account, mempool, encrypted_tx, verification, swap_calculation>>
     ELSE Aborts(offset)

(***************************************************************************)
(* zenz_bridge: the reserve ledger                                         *)
(***************************************************************************)
\* the counters total_minted and total_burned are explored while below
\* MaxCounter, the reserves while below MaxReserve
MaxCounter == 2

MaxReserve == 3

\* the keys that sign ledger instructions
Keys == {"admin", "alice"}

\* the Mint accounts an instruction can be handed
MintKeys == {"zenZEC", "otherMint"}

\* the owners of zenZEC token accounts
Holders == {"alice"}

LedgerAmounts == {U64Of(0), U64Of(1), MaxU64}

MaxMints == {U64Of(1), MaxU64}

BootstrapBtc == {U64Of(2)}

BootstrapZec == {U64Of(1)}

ReserveAdditions == {U64Of(1), MaxU64}

\* pub enum ReserveAsset
ReserveAsset == {"BTC", "ZEC"}

\* the values interpolated into a msg! line, by the type displayed
ShownU64(v) == [u64 |-> v]

ShownKey(k) == [pubkey |-> k]

ShownBool(b) == [bool |-> b]

ShownString(s) == [string |-> s]

ShownDebug(v) == [debug |-> v]

\* the Config account before initialize_config has created it
NoConfig == [exists |-> FALSE]

\* the result of a ledger instruction that has not run
NoLedgerReturn == [result |-> "none", emitted |-> {}, logs |-> <<>>]

LedgerInit ==
  /\ config = NoConfig
  /\ mint = [mint_authority |-> "admin", supply |-> U64Of(0)]
  /\ token_accounts = [h \in Holders |-> U64Of(0)]
  /\ ledger_ret = NoLedgerReturn

\* the instruction failed (an account constraint, require!, a failed CPI or a
\* panic): the transaction is rolled back
LedgerFail(err) ==
  /\ ledger_ret' = [result |-> err, emitted |-> {}, logs |-> <<>>]
  /\ UNCHANGED <<config, mint, token_accounts>>

\* the instruction returned Ok(()) having emitted events and logged lines
LedgerOk(events, lines) ==
  ledger_ret' = [result |-> "Ok", emitted |-> events, logs |-> lines]

\* token::mint_to(cpi_ctx, amount): the token program adds amount to the supply
\* of the mint and to the destination account, signed by the mint authority
token_mint_to(authority, to, amount) ==
  LET supply == AddCarry(mint.supply, amount, 1, 0)
      held == AddCarry(token_accounts[to], amount, 1, 0)
  IN  IF mint.mint_authority # authority THEN [ok |-> FALSE, err |-> "OwnerMismatch"]
      ELSE IF supply[U64Len + 1] = 1 \/ held[U64Len + 1] = 1
      THEN [ok |-> FALSE, err |-> "Overflow"]
      ELSE [ok |-> TRUE,
            mint |-> [mint EXCEPT !.supply = SubSeq(supply, 1, U64Len)],
            token_accounts |-> [token_accounts EXCEPT ![to] = SubSeq(held, 1, U64Len)]]

\* token::burn(cpi_ctx, amount): the token program takes amount from the account
\* and from the supply, signed by the owner of the account
token_burn(authority, from, amount) ==
  LET supply == SubBorrow(mint.supply, amount, 1, 0)
      held == SubBorrow(token_accounts[from], amount, 1, 0)
  IN  IF from # authority THEN [ok |-> FALSE, err |-> "OwnerMismatch"]
      ELSE IF held[U64Len + 1] = 1 THEN [ok |-> FALSE, err |-> "InsufficientFunds"]
      ELSE [ok |-> TRUE,
            mint |-> [mint EXCEPT !.supply = SubSeq(supply, 1, U64Len)],
            token_accounts |-> [token_accounts EXCEPT ![from] = SubSeq(held, 1, U64Len)]]

\* #[account(mut, seeds = [b"config"], bump, has_one = authority, has_one = mint)]
\* the error of the account constraints, "Ok" when they pass
MintZenZEC(authority, mint_key) ==
  IF ~config.exists THEN "AccountNotInitialized"
  ELSE IF config.authority # authority THEN "ConstraintHasOne"
  ELSE IF config.mint # mint_key THEN "ConstraintHasOne"
  ELSE "Ok"

\* #[account(mut, seeds = [b"config"], bump, has_one = mint)]: the contexts
\* BurnZenZEC, BurnAndEmit and BurnForBTC
BurnZenZEC(mint_key) ==
  IF ~config.exists THEN "AccountNotInitialized"
  ELSE IF config.mint # mint_key THEN "ConstraintHasOne"
  ELSE "Ok"

BurnAndEmit(mint_key) ==
  BurnZenZEC(mint_key)

BurnForBTC(mint_key) ==
  BurnZenZEC(mint_key)

\* SetPaused without `has_one = authority`: any signer passes
SetPaused_any_signer(authority) ==
  IF ~config.exists THEN "AccountNotInitialized"
  ELSE "Ok"

\* #[account(mut, seeds = [b"config"], bump, has_one = authority)]: the contexts
\* SetPaused, SetMaxMint and UpdateReserve
SetPaused(authority) ==
  IF ~config.exists THEN "AccountNotInitialized"
  ELSE IF config.authority # authority THEN "ConstraintHasOne"
  ELSE "Ok"

SetMaxMint(authority) ==
  SetPaused(authority)

UpdateReserve(authority) ==
  SetPaused(authority)

\* pub fn initialize_config(ctx, max_mint_per_tx, bootstrap_btc, bootstrap_zec,
\* reserve_asset); `init` fails when the config account exists
initialize_config(authority, mint_key, max_mint_per_tx, bootstrap_btc, bootstrap_zec, reserve_asset) ==
  IF config.exists THEN LedgerFail("AccountAlreadyInUse")
  ELSE /\ config' = [exists |-> TRUE,
                     authority |-> authority,
                     mint |-> mint_key,
                     max_mint_per_tx |-> max_mint_per_tx,
                     paused |-> FALSE,
                     total_minted |-> U64Of(0),
                     total_burned |-> U64Of(0),
                     btc_reserve |-> bootstrap_btc,
                     zec_reserve |-> bootstrap_zec,
                     bootstrap_btc |-> bootstrap_btc,
                     bootstrap_zec |-> bootstrap_zec,
                     reserve_asset |-> reserve_asset]
       /\ LedgerOk({}, <<Fmt("Bridge config initialized", <<>>),
                         Fmt("Authority: {}", <<ShownKey(authority)>>),
                         Fmt("Mint: {}", <<ShownKey(mint_key)>>),
                         Fmt("Max mint per tx: {}", <<ShownU64(max_mint_per_tx)>>),
                         Fmt("Bootstrap BTC: {} satoshis", <<ShownU64(bootstrap_btc)>>),
                         Fmt("Bootstrap ZEC: {}", <<ShownU64(bootstrap_zec)>>),
                         Fmt("Reserve asset: {:?}", <<ShownDebug(reserve_asset)>>)>>)
       /\ UNCHANGED <<mint, token_accounts>>

\* pub fn mint_zenzec(ctx, amount); user_token_account is the associated token
\* account of user
mint_zenzec(authority, mint_key, user, amount, checks) ==
  LET accounts == MintZenZEC(authority, mint_key)
      available_reserve == IF config.reserve_asset = "BTC" THEN config.btc_reserve
                           ELSE config.zec_reserve
      total == AddU64(config.total_minted, amount, checks)
      minted == token_mint_to(authority, user, amount)
  IN  IF accounts # "Ok" THEN LedgerFail(accounts)
      ELSE IF config.paused THEN LedgerFail("BridgePaused")
      ELSE IF amount = U64Of(0) THEN LedgerFail("InvalidAmount")
      ELSE IF LessBytes(config.max_mint_per_tx, amount) THEN LedgerFail("AmountExceedsMax")
      ELSE IF ~total.ok THEN LedgerFail("Panicked")
      ELSE IF LessBytes(available_reserve, total.value) THEN LedgerFail("InsufficientReserve")
      ELSE IF ~minted.ok THEN LedgerFail(minted.err)
      ELSE /\ mint' = minted.mint
           /\ token_accounts' = minted.token_accounts
           /\ config' = [config EXCEPT !.total_minted = total.value]
           /\ LedgerOk({}, <<Fmt("Minted {} zenZEC to {}", <<ShownU64(amount), ShownKey(user)>>),
                             Fmt("Reserve: {} {:?}", <<ShownU64(available_reserve),
                                                       ShownDebug(config.reserve_asset)>>)>>)

\* pub fn burn_zenzec(ctx, amount)
burn_zenzec(user, mint_key, user_token_account, amount, checks) ==
  LET accounts == BurnZenZEC(mint_key)
      burned == token_burn(user, user_token_account, amount)
      total == AddU64(config.total_burned, amount, checks)
  IN  IF accounts # "Ok" THEN LedgerFail(accounts)
      ELSE IF amount = U64Of(0) THEN LedgerFail("InvalidAmount")
      ELSE IF ~burned.ok THEN LedgerFail(burned.err)
      ELSE IF ~total.ok THEN LedgerFail("Panicked")
      ELSE /\ mint' = burned.mint
           /\ token_accounts' = burned.token_accounts
           /\ config' = [config EXCEPT !.total_burned = total.value]
           /\ LedgerOk({}, <<Fmt("Burned {} zenZEC from {}",
                                 <<ShownU64(amount), ShownKey(user)>>)>>)

\* pub fn burn_and_emit(ctx, amount)
burn_and_emit(user, mint_key, user_token_account, amount, checks) ==
  LET accounts == BurnAndEmit(mint_key)
      burned == token_burn(user, user_token_account, amount)
      total == AddU64(config.total_burned, amount, checks)
      event == [name |-> "BurnSwapEvent", user |-> user, amount |-> amount,
                timestamp |-> now]
  IN  IF accounts # "Ok" THEN LedgerFail(accounts)
      ELSE IF amount = U64Of(0) THEN LedgerFail("InvalidAmount")
      ELSE IF ~burned.ok THEN LedgerFail(burned.err)
      ELSE IF ~total.ok THEN LedgerFail("Panicked")
      ELSE /\ mint' = burned.mint
           /\ token_accounts' = burned.token_accounts
           /\ config' = [config EXCEPT !.total_burned = total.value]
           /\ LedgerOk({event},
                       <<Fmt("Burned {} zenZEC and emitted swap event for {}",
                             <<ShownU64(amount), ShownKey(user)>>)>>)

\* pub fn set_paused(ctx, paused)
set_paused(authority, paused) ==
  LET accounts == SetPaused(authority)
  IN  IF accounts # "Ok" THEN LedgerFail(accounts)
      ELSE /\ config' = [config EXCEPT !.paused = paused]
           /\ LedgerOk({}, <<Fmt("Bridge paused status set to: {}", <<ShownBool(paused)>>)>>)
           /\ UNCHANGED <<mint, token_accounts>>

\* pub fn set_max_mint(ctx, max_mint_per_tx)
set_max_mint(authority, max_mint_per_tx) ==
  LET accounts == SetMaxMint(authority)
  IN  IF accounts # "Ok" THEN LedgerFail(accounts)
      ELSE /\ config' = [config EXCEPT !.max_mint_per_tx = max_mint_per_tx]
           /\ LedgerOk({}, <<Fmt("Max mint per tx updated to: {}",
                                 <<ShownU64(max_mint_per_tx)>>)>>)
           /\ UNCHANGED <<mint, token_accounts>>

\* pub fn update_btc_reserve(ctx, amount)
update_btc_reserve(authority, amount, checks) ==
  LET accounts == UpdateReserve(authority)
      total == AddU64(config.btc_reserve, amount, checks)
  IN  IF accounts # "Ok" THEN LedgerFail(accounts)
      ELSE IF ~total.ok THEN LedgerFail("Panicked")
      ELSE /\ config' = [config EXCEPT !.btc_reserve = total.value]
           /\ LedgerOk({}, <<Fmt("BTC reserve updated: {} satoshis",
                                 <<ShownU64(total.value)>>)>>)
           /\ UNCHANGED <<mint, token_accounts>>

\* pub fn update_zec_reserve(ctx, amount)
update_zec_reserve(authority, amount, checks) ==
  LET accounts == UpdateReserve(authority)
      total == AddU64(config.zec_reserve, amount, checks)
  IN  IF accounts # "Ok" THEN LedgerFail(accounts)
      ELSE IF ~total.ok THEN LedgerFail("Panicked")
      ELSE /\ config' = [config EXCEPT !.zec_reserve = total.value]
           /\ LedgerOk({}, <<Fmt("ZEC reserve updated: {}", <<ShownU64(total.value)>>)>>)
           /\ UNCHANGED <<mint, token_accounts>>

\* pub fn burn_for_btc(ctx, amount, btc_address, use_privacy)
burn_for_btc(user, mint_key, user_token_account, amount, btc_address, use_privacy, checks) ==
  LET accounts == BurnForBTC(mint_key)
      burned == token_burn(user, user_token_account, amount)
      total == AddU64(config.total_burned, amount, checks)
      event == [name |-> "BurnToBTCEvent", user |-> user, amount |-> amount,
                btc_address_hash |-> btc_address, encrypted |-> use_privacy,
                timestamp |-> now]
  IN  IF accounts # "Ok" THEN LedgerFail(accounts)
      ELSE IF config.paused THEN LedgerFail("BridgePaused")
      ELSE IF amount = U64Of(0) THEN LedgerFail("InvalidAmount")
      ELSE IF ~burned.ok THEN LedgerFail(burned.err)
      ELSE IF ~total.ok THEN LedgerFail("Panicked")
      ELSE /\ mint' = burned.mint
           /\ token_accounts' = burned.token_accounts
           /\ config' = [config EXCEPT !.total_burned = total.value]
           /\ LedgerOk({event},
                       <<Fmt("Burned {} zenZEC and emitted BTC event for {}",
                             <<ShownU64(amount), ShownKey(user)>>),
                         Fmt("BTC address: {} (encrypted: {})",
                             <<ShownString(btc_address), ShownBool(use_privacy)>>)>>)

\* the cluster's clock advances between instructions
Tick ==
  /\ now < MaxTime
  /\ now' = now + 1
  /\ UNCHANGED <<mxe_accounts, mempool, ret, history>>

Init ==
  /\ MxeInit
  /\ LedgerInit
  /\ call = NoCall
  /\ result = NoResult

SubmitEncryptBridge ==
  \E o \in Offsets, a \in Amounts, s \in SourceChains, d \in DestChains, u \in Users :
    mxe_encrypt_bridge_amount(o, a, s, d, u)

SubmitVerify ==
  \E o \in Offsets, h \in TxHashes, e \in ExpectedAmounts, b \in SourceChains :
    mxe_verify_bridge_transaction(o, h, e, b)

SubmitSwap ==
  \E o \in Offsets, z \in ZenAmounts, r \in ExchangeRates, s \in Slippages :
    mxe_calculate_swap_amount(o, z, r, s)

SubmitEncryptBtc ==
  \E o \in Offsets, a \in BtcAddresses, r \in Recipients :
    mxe_encrypt_btc_address(o, a, r)

CallbackEncryptBridge ==
  \E o \in Offsets :
    /\ Delivers(o, "encrypt_bridge_amount")
    /\ \E out \in CallbackOutputs(mempool[o]) : encrypt_bridge_callback(o, out)

CallbackVerify ==
  \E o \in Offsets :
    /\ Delivers(o, "verify_bridge_transaction")
    /\ \E out \in CallbackOutputs(mempool[o]) : verify_bridge_callback(o, out)

CallbackSwap ==
  \E o \in Offsets :
    /\ Delivers(o, "calculate_swap_amount")
    /\ \E out \in CallbackOutputs(mempool[o]) : calculate_swap_callback(o, out)

CallbackEncryptBtc ==
  \E o \in Offsets :
    /\ Delivers(o, "encrypt_btc_address")
    /\ \E out \in CallbackOutputs(mempool[o]) : encrypt_btc_callback(o, out)

Next ==
  \/ (SubmitEncryptBridge /\ UNCHANGED <<circuit_vars, ledger_vars>>)
  \/ (SubmitVerify /\ UNCHANGED <<circuit_vars, ledger_vars>>)
  \/ (SubmitSwap /\ UNCHANGED <<circuit_vars, ledger_vars>>)
  \/ (SubmitEncryptBtc /\ UNCHANGED <<circuit_vars, ledger_vars>>)
  \/ (CallbackEncryptBridge /\ UNCHANGED <<circuit_vars, ledger_vars>>)
  \/ (CallbackVerify /\ UNCHANGED <<circuit_vars, ledger_vars>>)
  \/ (CallbackSwap /\ UNCHANGED <<circuit_vars, ledger_vars>>)
  \/ (CallbackEncryptBtc /\ UNCHANGED <<circuit_vars, ledger_vars>>)
  \/ (Tick /\ UNCHANGED <<circuit_vars, ledger_vars>>)

Spec == Init /\ [][Next]_vars

(***************************************************************************)
(* The encrypted instructions on their own: one invocation per behaviour,  *)
(* its input drawn at Init                                                 *)
(***************************************************************************)
\* zen_amount: Vec<u8>, also shorter and longer than the 8 bytes read
SwapZenInputs ==
  {U64Of(0), U64Of(1), U64Of(7), U64Of(1000), Pow32, Pow63, MaxU64,
   <<232, 3>>, U64Of(1000) \o <<9>>}

SwapRateInputs == {U64Of(0), U64Of(1), U64Of(3), U64Of(5), Pow32}

SwapSlippageInputs ==
  {U64Of(0), U64Of(10), U64Of(33), U64Of(50), U64Of(51), U64Of(100), U64Of(101)}

SwapCalls ==
  {[fn |-> "calculate_swap_amount",
    data |-> [zen_amount |-> z, exchange_rate |-> r, slippage_tolerance |-> s],
    checks |-> c] :
     z \in SwapZenInputs, r \in SwapRateInputs, s \in SwapSlippageInputs, c \in BOOLEAN}

\* "ZEC" and "SOL"
ZEC == <<90, 69, 67>>

SOL == <<83, 79, 76>>

\* amount: u64, on and around every threshold the helpers compare it with
CircuitAmounts ==
  {0, 1, 9999, 10000, 10001, 40000, 50000, 50001, 99999, 100000, 100001,
   500000, 500001, 600000, 999999, 1000000, 1000001}

\* user_pubkey: [u8; 32]
UserKeys ==
  {[i \in 1..IdLen |-> i], [i \in 1..IdLen |-> 255 - i], [i \in 1..IdLen |-> 166]}

BridgeAmountInputs ==
  {[amount |-> a, source_chain |-> s, dest_chain |-> SOL, timestamp |-> 7, user_pubkey |-> u] :
     a \in CircuitAmounts, s \in {ZEC, BTC}, u \in UserKeys}

EncryptBridgeCalls ==
  {[fn |-> "encrypt_bridge_amount", input |-> i, nanos |-> n] :
     i \in BridgeAmountInputs, n \in NanoTimes}

SealedCalls ==
  {[fn |-> "encrypt_bridge_amount_sealed", input |-> i, nanos |-> n, task_nanos |-> m] :
     i \in BridgeAmountInputs, n \in NanoTimes, m \in NanoTimes}

\* a string of n characters '1'
Ones(n) == [i \in 1..n |-> 49]

\* 34 characters, one of them a space
SpacedBtcAddress == Ones(16) \o <<32>> \o Ones(17)

BtcAddressInputs ==
  {GoodBtcAddress, ShortBtcAddress, SpacedBtcAddress, <<>>, Ones(25), Ones(26), Ones(62),
   Ones(63)}

EncryptBtcCalls ==
  {[fn |-> "encrypt_btc_address",
    data |-> [address |-> a, recipient_pubkey |-> u, timestamp |-> 7]] :
     a \in BtcAddressInputs, u \in UserKeys}

\* two invocations of an ID generator, at the clock values they observe
IdCalls ==
  {[fn |-> f, clocks |-> <<n, m>>] :
     f \in {"generate_computation_id", "generate_task_id"}, n \in NanoTimes, m \in NanoTimes}

HelperCalls ==
  {[fn |-> f, amount |-> a, source_chain |-> s, user_pubkey |-> u] :
     f \in {"hash_user_id", "categorize_amount", "assess_risk_level", "determine_priority"},
     a \in CircuitAmounts, s \in {ZEC, BTC}, u \in UserKeys}

\* max_value: u64
RelayerMaxValues == {0, 1, 2, 3, 10, 1000, 2147483647}

RelayerRandomCalls ==
  {[fn |-> "generate_relayer_random", max_value |-> m] : m \in RelayerMaxValues}

\* the verification data of a transaction and the amount the transaction moved
\* on its chain (the data the instruction "would fetch")
VerifyCalls ==
  {[fn |-> "verify_bridge_transaction",
    data |-> [tx_hash |-> h, expected_amount |-> U64Of(e), blockchain |-> b, timestamp |-> 7],
    actual_amount |-> a] :
     h \in TxHashes, e \in {0, 1, 50000}, b \in {ZEC, BTC}, a \in {0, 1, 50000}}

\* "ZE" and "CSOL": the chain tags "ZEC", "SOL" cut one byte earlier
ZE == <<90, 69>>

CSOL == <<67, 83, 79, 76>>

ProofInputs ==
  {[amount |-> a, source_chain |-> s, dest_chain |-> d, timestamp |-> ts, user_pubkey |-> u] :
     a \in {1, 50000}, s \in {ZEC, ZE}, d \in {SOL, CSOL}, ts \in {7, 8},
     u \in {[i \in 1..IdLen |-> i], [i \in 1..IdLen |-> 166]}}

\* two invocations of generate_bridge_proof, each on its input at its clock value
ProofCalls ==
  {[fn |-> "generate_bridge_proof", inputs |-> <<i, j>>, clocks |-> <<n, m>>] :
     i \in ProofInputs, j \in ProofInputs, n \in NanoTimes, m \in NanoTimes}

BalanceCalls ==
  {[fn |-> "verify_sufficient_balance", balance |-> b, required |-> r] :
     b \in {0, 1, 50000}, r \in {0, 1, 50000}}

CircuitCalls ==
  SwapCalls \cup EncryptBridgeCalls \cup SealedCalls \cup EncryptBtcCalls
    \cup IdCalls \cup HelperCalls \cup RelayerRandomCalls \cup VerifyCalls
    \cup ProofCalls \cup BalanceCalls

CircuitInit ==
  /\ MxeInit
  /\ LedgerInit
  /\ call \in CircuitCalls
  /\ result = NoResult

RunCalculateSwap ==
  /\ call.fn = "calculate_swap_amount"
  /\ ~result.ran
  /\ result' = Ran(calculate_swap_amount(call.data, call.checks))
  /\ UNCHANGED <<call, mxe_vars, ledger_vars>>

RunEncryptBridgeAmount ==
  /\ call.fn = "encrypt_bridge_amount"
  /\ ~result.ran
  /\ result' = Ran(encrypt_bridge_amount(call.input, call.nanos))
  /\ UNCHANGED <<call, mxe_vars, ledger_vars>>

RunEncryptBridgeAmountSealed ==
  /\ call.fn = "encrypt_bridge_amount_sealed"
  /\ ~result.ran
  /\ result' = Ran(encrypt_bridge_amount_sealed(call.input, call.nanos, call.task_nanos))
  /\ UNCHANGED <<call, mxe_vars, ledger_vars>>

RunEncryptBtcAddress ==
  /\ call.fn = "encrypt_btc_address"
  /\ ~result.ran
  /\ result' = Ran(encrypt_btc_address(call.data))
  /\ UNCHANGED <<call, mxe_vars, ledger_vars>>

RunGenerateComputationId ==
  /\ call.fn = "generate_computation_id"
  /\ ~result.ran
  /\ result' = Ran([i \in 1..2 |-> Returned(generate_computation_id(call.clocks[i]))])
  /\ UNCHANGED <<call, mxe_vars, ledger_vars>>

RunGenerateTaskId ==
  /\ call.fn = "generate_task_id"
  /\ ~result.ran
  /\ result' = Ran([i \in 1..2 |-> generate_task_id(call.clocks[i])])
  /\ UNCHANGED <<call, mxe_vars, ledger_vars>>

RunHashUserId ==
  /\ call.fn = "hash_user_id"
  /\ ~result.ran
  /\ result' = Ran(Returned(hash_user_id(call.user_pubkey)))
  /\ UNCHANGED <<call, mxe_vars, ledger_vars>>

RunCategorizeAmount ==
  /\ call.fn = "categorize_amount"
  /\ ~result.ran
  /\ result' = Ran(Returned(categorize_amount(call.amount)))
  /\ UNCHANGED <<call, mxe_vars, ledger_vars>>

RunAssessRiskLevel ==
  /\ call.fn = "assess_risk_level"
  /\ ~result.ran
  /\ result' = Ran(Returned(assess_risk_level(call.amount, call.source_chain)))
  /\ UNCHANGED <<call, mxe_vars, ledger_vars>>

RunDeterminePriority ==
  /\ call.fn = "determine_priority"
  /\ ~result.ran
  /\ result' = Ran(Returned(determine_priority(call.amount)))
  /\ UNCHANGED <<call, mxe_vars, ledger_vars>>

RunGenerateRelayerRandom ==
  /\ call.fn = "generate_relayer_random"
  /\ ~result.ran
  /\ result' = Ran(generate_relayer_random(call.max_value))
  /\ UNCHANGED <<call, mxe_vars, ledger_vars>>

RunVerifyBridgeTransaction ==
  /\ call.fn = "verify_bridge_transaction"
  /\ ~result.ran
  /\ result' = Ran(verify_bridge_transaction(call.data))
  /\ UNCHANGED <<call, mxe_vars, ledger_vars>>

RunVerifySufficientBalance ==
  /\ call.fn = "verify_sufficient_balance"
  /\ ~result.ran
  /\ result' = Ran(verify_sufficient_balance(call.balance, call.required))
  /\ UNCHANGED <<call, mxe_vars, ledger_vars>>

RunGenerateBridgeProof ==
  /\ call.fn = "generate_bridge_proof"
  /\ ~result.ran
  /\ result' = Ran([i \in 1..2 |-> generate_bridge_proof(call.inputs[i], call.clocks[i])])
  /\ UNCHANGED <<call, mxe_vars, ledger_vars>>

CircuitNext ==
  \/ RunCalculateSwap
  \/ RunEncryptBridgeAmount
  \/ RunEncryptBridgeAmountSealed
  \/ RunEncryptBtcAddress
  \/ RunGenerateComputationId
  \/ RunGenerateTaskId
  \/ RunHashUserId
  \/ RunCategorizeAmount
  \/ RunAssessRiskLevel
  \/ RunDeterminePriority
  \/ RunGenerateRelayerRandom
  \/ RunVerifyBridgeTransaction
  \/ RunVerifySufficientBalance
  \/ RunGenerateBridgeProof

SpecCircuit == CircuitInit /\ [][CircuitNext]_vars

(***************************************************************************)
(* The reserve ledger on its own: any key calls any instruction            *)
(***************************************************************************)
\* a counter is still below the bound it is explored to
Explored(counter, bound) ==
  config.exists => LessBytes(config[counter], U64Of(bound))

CallInitializeConfig ==
  \E k \in Keys, mx \in MaxMints, bb \in BootstrapBtc, bz \in BootstrapZec,
     ra \in ReserveAsset :
    initialize_config(k, "zenZEC", mx, bb, bz, ra)

CallMintZenzec ==
  /\ Explored("total_minted", MaxCounter)
  /\ \E k \in Keys, m \in MintKeys, u \in Holders, a \in LedgerAmounts, c \in BOOLEAN :
       mint_zenzec(k, m, u, a, c)

CallBurnZenzec ==
  /\ Explored("total_burned", MaxCounter)
  /\ \E k \in Keys, m \in MintKeys, h \in Holders, a \in LedgerAmounts, c \in BOOLEAN :
       burn_zenzec(k, m, h, a, c)

CallBurnAndEmit ==
  /\ Explored("total_burned", MaxCounter)
  /\ \E k \in Keys, m \in MintKeys, h \in Holders, a \in LedgerAmounts, c \in BOOLEAN :
       burn_and_emit(k, m, h, a, c)

CallSetPaused ==
  \E k \in Keys, p \in BOOLEAN : set_paused(k, p)

CallSetMaxMint ==
  \E k \in Keys, mx \in MaxMints : set_max_mint(k, mx)

CallUpdateBtcReserve ==
  /\ Explored("btc_reserve", MaxReserve)
  /\ \E k \in Keys, a \in ReserveAdditions, c \in BOOLEAN : update_btc_reserve(k, a, c)

CallUpdateZecReserve ==
  /\ Explored("zec_reserve", MaxReserve)
  /\ \E k \in Keys, a \in ReserveAdditions, c \in BOOLEAN : update_zec_reserve(k, a, c)

CallBurnForBtc ==
  /\ Explored("total_burned", MaxCounter)
  /\ \E k \in Keys, m \in MintKeys, h \in Holders, a \in LedgerAmounts,
        b \in BtcAddresses, p \in BOOLEAN, c \in BOOLEAN :
       burn_for_btc(k, m, h, a, b, p, c)

LedgerNext ==
  \/ (CallInitializeConfig /\ UNCHANGED <<mxe_vars, circuit_vars>>)
  \/ (CallMintZenzec /\ UNCHANGED <<mxe_vars, circuit_vars>>)
  \/ (CallBurnZenzec /\ UNCHANGED <<mxe_vars, circuit_vars>>)
  \/ (CallBurnAndEmit /\ UNCHANGED <<mxe_vars, circuit_vars>>)
  \/ (CallSetPaused /\ UNCHANGED <<mxe_vars, circuit_vars>>)
  \/ (CallSetMaxMint /\ UNCHANGED <<mxe_vars, circuit_vars>>)
  \/ (CallUpdateBtcReserve /\ UNCHANGED <<mxe_vars, circuit_vars>>)
  \/ (CallUpdateZecReserve /\ UNCHANGED <<mxe_vars, circuit_vars>>)
  \/ (CallBurnForBtc /\ UNCHANGED <<mxe_vars, circuit_vars>>)
  \/ (Tick /\ UNCHANGED <<circuit_vars, ledger_vars>>)

SpecLedger == Init /\ [][LedgerNext]_vars

(***************************************************************************)
(* Properties of the MXE program                                           *)
(***************************************************************************)
Last(s) == s[Len(s)]

\* the accounts a callback for the offset writes
Accounts(o) == <<encrypted_tx[o], verification[o], swap_calculation[o], encrypted_btc[o]>>

\* a callback for the offset is delivered in this step
CallbackStep(o) == Len(history'[o]) = Len(history[o]) + 1

\* C1: once a callback was delivered for a queued computation, every later
\* callback for the same offset returns an error and leaves each field of the
\* computation's accounts as it was.
C1_SecondCallbackRejected ==
  [][\A o \in Offsets :
       (Len(history[o]) >= 1 /\ CallbackStep(o))
         => (ret'.result # "Ok" /\ Accounts(o)' = Accounts(o))]_vars

\* C2: a callback with a non-Success output returns AbortedComputation, writes
\* no account field and emits no event, and after it no callback for the same
\* offset completes the computation.
C2_AbortIsTerminal ==
  [][\A o \in Offsets :
       /\ (CallbackStep(o) /\ Last(history'[o]) # "Ok")
            => /\ ret'.result = "AbortedComputation"
               /\ ret'.emitted = {}
               /\ Accounts(o)' = Accounts(o)
       /\ (CallbackStep(o) /\ \E i \in 1..Len(history[o]) : history[o][i] = "AbortedComputation")
            => Last(history'[o]) # "Ok"]_vars

\* the part of C2 the handlers do keep: an aborted callback returns
\* AbortedComputation, writes nothing and emits nothing
AbortWritesNothing ==
  [][\A o \in Offsets :
       (CallbackStep(o) /\ Last(history'[o]) # "Ok")
         => /\ ret'.result = "AbortedComputation"
            /\ ret'.emitted = {}
            /\ Accounts(o)' = Accounts(o)
            /\ mempool' = mempool]_vars

\* the inputs the coordinator is to refuse: a zero amount, an empty chain name,
\* a zero rate, a slippage above 50, an address outside 26..62 bytes
InvalidSubmission(comp) ==
  CASE comp.kind = "encrypt_bridge_amount" ->
         \/ comp.args.amount = 0
         \/ comp.args.source_chain = ""
         \/ comp.args.dest_chain = ""
    [] comp.kind = "verify_bridge_transaction" ->
         comp.args.expected_amount = <<>>
    [] comp.kind = "calculate_swap_amount" ->
         \/ comp.args.exchange_rate = U64Of(0)
         \/ LessBytes(U64Of(50), comp.args.slippage_tolerance)
    [] comp.kind = "encrypt_btc_address" ->
         \/ Len(comp.args.address) < MinBtcAddressLen
         \/ Len(comp.args.address) > MaxBtcAddressLen
    [] OTHER -> FALSE

\* C3: no submission with an invalid input gets as far as queue_computation:
\* the mempool never holds a computation with an invalid input and no
\* submission event reports one.
C3_InvalidNeverQueued ==
  /\ \A o \in Offsets : ~InvalidSubmission(mempool[o])
  /\ \A e \in ret.emitted : e.name = "BridgeAmountEncrypted" => e.amount # 0

\* C4: an offset is queued at most once (a submission naming an offset in use
\* leaves the mempool as it is) and at most one callback completes it.
C4_OffsetUsedOnce ==
  [][\A o \in Offsets :
       /\ mempool'[o] # mempool[o] => mempool[o] = NoComputation
       /\ (CallbackStep(o) /\ Last(history'[o]) = "Ok")
            => \A i \in 1..Len(history[o]) : history[o][i] # "Ok"]_vars

\* the part of C4 that rests on the fabric alone
OffsetQueuedOnce ==
  [][\A o \in Offsets : mempool'[o] # mempool[o] => mempool[o] = NoComputation]_vars

\* the callback of that kind completes the computation at the offset in this step
Completes(o, kind) ==
  /\ mempool[o].kind = kind
  /\ history'[o] = Append(history[o], "Ok")
  /\ \A p \in Offsets \ {o} : Accounts(p)' = Accounts(p)

C6_NoAmountInEvents ==
  \A e \in ret.emitted : "amount" \notin DOMAIN e /\ "sol_amount" \notin DOMAIN e

(***************************************************************************)
(* Properties of the reserve ledger                                        *)
(***************************************************************************)
\* C7: no msg! line and no event of a ledger instruction holds a BTC address
\* it was handed in the clear.
C7_NoPlaintextBtcAddress ==
  \A a \in BtcAddresses :
    /\ \A i \in DOMAIN ledger_ret.logs :
         \A j \in DOMAIN ledger_ret.logs[i].args :
           ledger_ret.logs[i].args[j] # ShownString(a)
    /\ \A e \in ledger_ret.emitted :
         e.name = "BurnToBTCEvent" => e.btc_address_hash # a

(***************************************************************************)
(* Properties of calculate_swap_amount                                     *)
(***************************************************************************)
SwapRan == call.fn = "calculate_swap_amount" /\ result.ran

\* the source amount: the first 8 bytes of zen_amount
SwapSource == SubSeq(call.data.zen_amount, 1, U64Len)

\* the value of a u64 below 2^16, as a number
NatOf(b) == b[1] + 256 * b[2]

Below(b, n) == (\A i \in 3..U64Len : b[i] = 0) /\ NatOf(b) < n

\* source_amount * rate and source_amount * rate * (100 - slippage) as exact
\* (unbounded) products, for a slippage of at most 100
SwapBase == MulWide(SwapSource, call.data.exchange_rate)

SwapScaled == MulWide(SwapBase, U64Of(100 - NatOf(call.data.slippage_tolerance)))

\* C8: for rate > 0, slippage in 0..50 and products that fit in u64, the result
\* is floor(source_amount * rate * (100 - slippage) / 100), on either build.
C8_SwapIsFloor ==
  (/\ SwapRan
   /\ Len(call.data.zen_amount) >= U64Len
   /\ call.data.exchange_rate # U64Of(0)
   /\ Below(call.data.slippage_tolerance, 51)
   /\ FitsU64(SwapBase)
   /\ FitsU64(SwapScaled))
  => /\ result.outcome.ok
     /\ result.outcome.value \o [i \in 1..(2 * U64Len) |-> 0] = DivU64(SwapScaled, 100)
     /\ (Below(SwapSource, 4096) /\ Below(call.data.exchange_rate, 4096))
          => result.outcome.value =
               U64Of((NatOf(SwapSource) * NatOf(call.data.exchange_rate)
                        * (100 - NatOf(call.data.slippage_tolerance))) \div 100)

\* amount = 1000, rate = 5, slippage = 10 gave 4500
C8_Witness ==
  /\ SwapRan
  /\ call.data = [zen_amount |-> U64Of(1000), exchange_rate |-> U64Of(5),
                  slippage_tolerance |-> U64Of(10)]
  /\ result.outcome = Returned(U64Of(4500))

\* C9: with a slippage tolerance above 50 the instruction fails, whatever the
\* amount and the rate.
C9_SlippageAboveCeilingRejected ==
  (SwapRan /\ LessBytes(U64Of(50), call.data.slippage_tolerance))
    => ~result.outcome.ok

\* C10: when source_amount * rate, or that product times (100 - slippage),
\* does not fit in u64, the instruction fails instead of returning a value.
C10_OverflowFails ==
  (/\ SwapRan
   /\ Len(call.data.zen_amount) >= U64Len
   /\ Below(call.data.slippage_tolerance, 101)
   /\ (~FitsU64(SwapBase) \/ ~FitsU64(SwapScaled)))
  => ~result.outcome.ok

(***************************************************************************)
(* Properties of the sealing instructions and their helpers                *)
(***************************************************************************)
Ran1(fn) == call.fn = fn /\ result.ran

\* the owner record of an outcome that returned: the value of
\* encrypt_bridge_amount, the first of the three outputs of the sealed variant
OwnerRecord == IF call.fn = "encrypt_bridge_amount" THEN result.outcome.value
               ELSE result.outcome.value[1]

\* the record C11 asks for: amount as 8 little-endian bytes, the chain tags of
\* the input, privacy level "maximum"
IsOwnerRecordOf(rec, input) ==
  /\ rec.encrypted_amount = ToLeBytes(input.amount, U64Len)
  /\ Len(rec.encrypted_amount) = 8
  /\ input.amount < 256 => rec.encrypted_amount = <<input.amount, 0, 0, 0, 0, 0, 0, 0>>
  /\ rec.source_chain = input.source_chain
  /\ rec.dest_chain = input.dest_chain
  /\ rec.privacy_level = "maximum"

\* C11: encrypt_bridge_amount and encrypt_bridge_amount_sealed fail on amount 0
\* and for every amount > 0 return an owner record holding the little-endian
\* amount, the input's chain tags and the privacy level "maximum".
C11_EncryptReturnsOwnerRecord ==
  (Ran1("encrypt_bridge_amount") \/ Ran1("encrypt_bridge_amount_sealed"))
    => IF call.input.amount = 0 THEN ~result.outcome.ok
       ELSE result.outcome.ok /\ IsOwnerRecordOf(OwnerRecord, call.input)

\* the part of C11 that holds: encrypt_bridge_amount alone
EncryptBridgeAmountReturnsOwnerRecord ==
  Ran1("encrypt_bridge_amount")
    => IF call.input.amount = 0 THEN ~result.outcome.ok
       ELSE result.outcome.ok /\ IsOwnerRecordOf(OwnerRecord, call.input)

\* the sealed variant returns for no input at all
SealedNeverReturns ==
  Ran1("encrypt_bridge_amount_sealed") => ~result.outcome.ok

\* HT, LF, VT, FF, CR and the space
Whitespace == {9, 10, 11, 12, 13, 32}

\* C12: encrypt_btc_address accepts an address exactly when it is 26 to 62
\* characters long and holds no whitespace.
C12_AddressAcceptedIffWellFormed ==
  Ran1("encrypt_btc_address")
    => (result.outcome.ok
          <=> /\ Len(call.data.address) \in 26..62
              /\ \A i \in DOMAIN call.data.address : call.data.address[i] \notin Whitespace)

\* the part of C12 that holds: acceptance by length alone, the accepted
\* address returned byte for byte
AddressAcceptedIffLengthInRange ==
  Ran1("encrypt_btc_address")
    => /\ result.outcome.ok <=> Len(call.data.address) \in 26..62
       /\ result.outcome.ok => result.outcome.value = call.data.address

\* C13: the three outputs of one encrypt_bridge_amount_sealed call carry one
\* computation ID (owner record, relayer task, audit transaction hash) and the
\* task ID of the relayer task is another identifier.
C13_SealedOutputsShareComputationId ==
  (Ran1("encrypt_bridge_amount_sealed") /\ call.input.amount > 0)
    => /\ result.outcome.ok
       /\ result.outcome.value[2].computation_id = result.outcome.value[1].computation_id
       /\ result.outcome.value[3].transaction_hash = result.outcome.value[1].computation_id
       /\ result.outcome.value[2].task_id # result.outcome.value[1].computation_id

\* C14: the relayer task of a sealed call is the one any input of the same
\* chains and the same priority band gives at the same clock values, whatever
\* its user and its amount within the band.
C14_RelayerTaskHidesUserAndAmount ==
  (Ran1("encrypt_bridge_amount_sealed") /\ call.input.amount > 0)
    => /\ result.outcome.ok
       /\ \A other \in BridgeAmountInputs :
            (/\ other.source_chain = call.input.source_chain
             /\ other.dest_chain = call.input.dest_chain
             /\ determine_priority(other.amount) = determine_priority(call.input.amount))
              => LET o == encrypt_bridge_amount_sealed(other, call.nanos, call.task_nanos)
                 IN  o.ok /\ o.value[2] = result.outcome.value[2]

\* what anyone holding a user_hash can compute: every byte minus 0x5A, wrapping
SubtractMask(hash) == [i \in DOMAIN hash |-> (hash[i] + 256 - 90) % 256]

\* C15: user_hash is never the raw key and the key cannot be computed back
\* from it.
C15_UserHashNotReversible ==
  Ran1("hash_user_id")
    => /\ result.outcome.value # call.user_pubkey
       /\ SubtractMask(result.outcome.value) # call.user_pubkey

\* the part of C15 that holds: user_hash differs from the key in every byte
UserHashDiffersFromKey ==
  Ran1("hash_user_id")
    => \A i \in 1..IdLen : result.outcome.value[i] # call.user_pubkey[i]

\* C16: two invocations of generate_computation_id, and two of
\* generate_task_id, return different IDs, also at one clock value.
C16_IdsUniquePerInvocation ==
  (Ran1("generate_computation_id") \/ Ran1("generate_task_id"))
    => /\ result.outcome[1].ok
       /\ result.outcome[2].ok
       /\ result.outcome[1].value # result.outcome[2].value

\* what the code gives instead: the computation ID is a function of the clock
\* value alone, and generate_task_id returns no ID
IdIsFunctionOfClock ==
  /\ Ran1("generate_computation_id")
       => (result.outcome[1].value = result.outcome[2].value
             <=> call.clocks[1] = call.clocks[2])
  /\ Ran1("generate_task_id") => ~result.outcome[1].ok /\ ~result.outcome[2].ok

\* C17: categorize_amount gives small below 10,000, medium for
\* 10,000..99,999, large for 100,000..999,999 and xlarge from 1,000,000 on.
C17_CategorizeBuckets ==
  Ran1("categorize_amount")
    => /\ call.amount \in 0..9999 => result.outcome.value = "small"
       /\ call.amount \in 10000..99999 => result.outcome.value = "medium"
       /\ call.amount \in 100000..999999 => result.outcome.value = "large"
       /\ call.amount >= 1000000 => result.outcome.value = "xlarge"

\* the lower bound of a bucket is inclusive: 10,000 is medium
C17_Witness ==
  Ran1("categorize_amount") /\ call.amount = 10000 /\ result.outcome.value = "medium"

\* the additive score of C18: 1, 2 or 3 for the amount across 50,000 and
\* 500,000, plus 1 for the chain tag BTC and 2 for any other
RiskScore(amount, source_chain) ==
  (IF amount > 500000 THEN 3 ELSE IF amount > 50000 THEN 2 ELSE 1)
    + (IF source_chain = <<66, 84, 67>> THEN 1 ELSE 2)

\* C18: assess_risk_level is low for a score up to 2, medium for 3 or 4 and
\* high from 5 on; 600,000 on a chain other than BTC is high, 40,000 on BTC low.
C18_RiskBands ==
  Ran1("assess_risk_level")
    => LET score == RiskScore(call.amount, call.source_chain)
       IN  /\ score <= 2 => result.outcome.value = "low"
           /\ score \in 3..4 => result.outcome.value = "medium"
           /\ score >= 5 => result.outcome.value = "high"
           /\ (call.amount = 600000 /\ call.source_chain = ZEC)
                => result.outcome.value = "high"
           /\ (call.amount = 40000 /\ call.source_chain = BTC)
                => result.outcome.value = "low"

C18_Witness ==
  /\ Ran1("assess_risk_level")
  /\ call.amount = 600000
  /\ call.source_chain = ZEC
  /\ result.outcome.value = "high"

\* C19: the priority is high above 1,000,000, standard above 100,000 up to
\* 1,000,000, and low for every other amount, 100,000 itself included.
C19_PriorityBands ==
  Ran1("determine_priority")
    => /\ call.amount > 1000000 => result.outcome.value = "high"
       /\ (call.amount > 100000 /\ call.amount <= 1000000)
            => result.outcome.value = "standard"
       /\ call.amount <= 100000 => result.outcome.value = "low"

C19_Witness ==
  Ran1("determine_priority") /\ call.amount = 100000 /\ result.outcome.value = "low"

(***************************************************************************)
(* Properties of the reserve ledger: the counters                          *)
(***************************************************************************)
\* the reserve of the configured reserve asset
AvailableReserve ==
  IF config.reserve_asset = "BTC" THEN config.btc_reserve ELSE config.zec_reserve

\* C20: after any sequence of ledger instructions total_minted is at most the
\* reserve of the configured reserve asset.
C20_MintedWithinReserve ==
  config.exists => ~LessBytes(AvailableReserve, config.total_minted)

\* the ledger accounts are as they were: nothing minted or burned, no Config
\* field changed
LedgerUntouched == UNCHANGED <<config, mint, token_accounts>>

\* the step fails with err and changes nothing
RejectedWith(err) == ledger_ret'.result = err /\ LedgerUntouched

\* total_minted + amount as an exact sum is above the reserve
ExceedsReserve(amount) ==
  LET sum == AddCarry(config.total_minted, amount, 1, 0)
  IN  sum[U64Len + 1] = 1 \/ LessBytes(AvailableReserve, SubSeq(sum, 1, U64Len))

\* C21: a mint_zenzec by the authority is rejected with BridgePaused when the
\* bridge is paused, with AmountExceedsMax when the amount is above
\* max_mint_per_tx, with InsufficientReserve when total_minted + amount is above
\* the reserve; nothing is minted and Config stays as it was.
C21_MintRejections ==
  [][\A u \in Holders, a \in LedgerAmounts, c \in BOOLEAN :
       (config.exists /\ mint_zenzec(config.authority, config.mint, u, a, c))
         => /\ config.paused => RejectedWith("BridgePaused")
            /\ (~config.paused /\ LessBytes(config.max_mint_per_tx, a))
                 => RejectedWith("AmountExceedsMax")
            /\ (~config.paused /\ a # U64Of(0) /\ ~LessBytes(config.max_mint_per_tx, a)
                  /\ ExceedsReserve(a))
                 => RejectedWith("InsufficientReserve")]_vars

\* the mint_zenzec of the authority with these arguments, taken in the current
\* state, fails with err and changes nothing
MintRejectedWith(u, a, c, err) ==
  ENABLED (mint_zenzec(config.authority, config.mint, u, a, c) /\ RejectedWith(err))

\* the part of C21 that holds on every build: the pause and the per-mint cap
MintRejectedWhenPausedOrAboveMax ==
  config.exists
    => \A u \in Holders, a \in LedgerAmounts, c \in BOOLEAN :
         /\ config.paused => MintRejectedWith(u, a, c, "BridgePaused")
         /\ (~config.paused /\ LessBytes(config.max_mint_per_tx, a))
              => MintRejectedWith(u, a, c, "AmountExceedsMax")

\* the four counters of Config that the instructions add to
LedgerCounters == {"total_minted", "total_burned", "btc_reserve", "zec_reserve"}

\* C22: the ledger counters are only ever added to, and an addition that would
\* leave the u64 range fails: no step leaves total_minted, total_burned,
\* btc_reserve or zec_reserve at a wrapped value, which is a value below the
\* one it had.
C22_CountersNeverWrap ==
  [][(config.exists /\ config'.exists)
       => \A counter \in LedgerCounters : ~LessBytes(config'[counter], config[counter])]_vars

\* the step is a failed instruction that changed nothing
Rejected == ledger_ret'.result # "Ok" /\ LedgerUntouched

\* the keys that are not Config.authority
Strangers == {k \in Keys : k # config.authority}

\* C23: set_paused, set_max_mint, update_btc_reserve, update_zec_reserve and
\* mint_zenzec signed by a key that is not Config.authority fail, whatever
\* their arguments, and leave Config (and the tokens) as they were.
C23_OnlyAuthorityActs ==
  config.exists
    => \A k \in Strangers :
         /\ \A p \in BOOLEAN : ~ENABLED (set_paused(k, p) /\ ~Rejected)
         /\ \A mx \in MaxMints : ~ENABLED (set_max_mint(k, mx) /\ ~Rejected)
         /\ \A a \in ReserveAdditions, c \in BOOLEAN :
              /\ ~ENABLED (update_btc_reserve(k, a, c) /\ ~Rejected)
              /\ ~ENABLED (update_zec_reserve(k, a, c) /\ ~Rejected)
         /\ \A m \in MintKeys, u \in Holders, a \in LedgerAmounts, c \in BOOLEAN :
              ~ENABLED (mint_zenzec(k, m, u, a, c) /\ ~Rejected)

\* a call was refused for an account constraint in a state where a key that is
\* not the authority asks to flip the pause of a bridge that has minted, and is
\* refused
C23_Witness ==
  /\ config.exists
  /\ config.total_minted # U64Of(0)
  /\ ledger_ret.result = "ConstraintHasOne"
  /\ \E k \in Strangers :
       ENABLED (set_paused(k, ~config.paused) /\ RejectedWith("ConstraintHasOne"))

(***************************************************************************)
(* Properties of the relayer random, the verification and the proof        *)
(***************************************************************************)
\* C24: generate_relayer_random(max) ends without a fault for every max, zero
\* included, and what it returns for a positive max lies in [0, max).
C24_RelayerRandomInRange ==
  Ran1("generate_relayer_random")
    => /\ result.outcome.ok
       /\ call.max_value > 0
            => (result.outcome.value >= 0 /\ result.outcome.value < call.max_value)

\* what the code does instead: it faults for max = 0 and returns the constant 0
\* for every other max
RelayerRandomIsZeroOrFault ==
  Ran1("generate_relayer_random")
    => IF call.max_value = 0 THEN ~result.outcome.ok
       ELSE result.outcome = Returned(0)

\* C25: verify_bridge_transaction returns true exactly when the expected amount
\* of the verification data is the amount the transaction moved.
C25_VerifiesExpectedAmount ==
  Ran1("verify_bridge_transaction")
    => /\ result.outcome.ok
       /\ result.outcome.value = (call.data.expected_amount = U64Of(call.actual_amount))

\* what the code does instead: the answer is true for every input
VerifyAlwaysTrue ==
  Ran1("verify_bridge_transaction") => result.outcome = Returned(TRUE)

\* C26: two invocations of generate_bridge_proof give the same proof when their
\* inputs are the same, and different proofs when the inputs differ in a field.
C26_ProofDeterministicAndCanonical ==
  Ran1("generate_bridge_proof")
    => (call.inputs[1] = call.inputs[2]) = (result.outcome[1] = result.outcome[2])

\* the layout of the proof is the one the claim gives, with the computation ID
\* of the clock value the invocation observed
ProofLayout ==
  Ran1("generate_bridge_proof")
    => \A i \in 1..2 :
         /\ result.outcome[i].ok
         /\ result.outcome[i].value
              = ToLeBytes(call.inputs[i].amount, 8) \o call.inputs[i].source_chain
                  \o call.inputs[i].dest_chain \o ToLeBytes(call.inputs[i].timestamp, 8)
                  \o FLASH_BRIDGE_V1 \o generate_computation_id(call.clocks[i])

\* invocations that observe the same clock value agree on equal inputs
ProofSameAtSameClock ==
  (Ran1("generate_bridge_proof") /\ call.clocks[1] = call.clocks[2]
     /\ call.inputs[1] = call.inputs[2])
    => result.outcome[1] = result.outcome[2]

\* the same input gives two proofs when the clock moved between the invocations
ProofVariesWithClock ==
  (Ran1("generate_bridge_proof") /\ call.clocks[1] # call.clocks[2]
     /\ call.inputs[1] = call.inputs[2])
    => result.outcome[1] # result.outcome[2]

\* inputs that differ only in the user key, or only in where the source chain
\* tag ends and the destination tag begins, give the same proof at one clock
\* value
ProofCollides ==
  (Ran1("generate_bridge_proof") /\ call.clocks[1] = call.clocks[2]
     /\ call.inputs[1].amount = call.inputs[2].amount
     /\ call.inputs[1].timestamp = call.inputs[2].timestamp
     /\ call.inputs[1].source_chain \o call.inputs[1].dest_chain
          = call.inputs[2].source_chain \o call.inputs[2].dest_chain)
    => result.outcome[1] = result.outcome[2]

(***************************************************************************)
(* Retries of the MXE program                                              *)
(***************************************************************************)
\* a callback of the computation at the offset has returned AbortedComputation
WasAborted(o) ==
  \E i \in 1..Len(history[o]) : history[o][i] = "AbortedComputation"

\* the step queues a computation at the offset
QueuedAt(o) == mempool'[o] # mempool[o]

\* C27: a callback step queues nothing, and once a computation was aborted the
\* only queue request that follows is a submission that succeeds under an
\* offset no computation was queued at before; nothing is queued again at the
\* offset of the aborted computation.
C27_NoRetryAfterAbort ==
  [][\A o \in Offsets :
       /\ CallbackStep(o) => mempool' = mempool
       /\ WasAborted(o)
            => /\ ~QueuedAt(o)
               /\ \A o2 \in Offsets :
                    QueuedAt(o2)
                      => /\ mempool[o2] = NoComputation
                         /\ history[o2] = <<>>
                         /\ ret'.result = "Ok"
                         /\ \A o3 \in Offsets : CallbackStep(o3) = FALSE]_vars

\* a computation was aborted, its entry is still the one that was queued, and
\* a submission under the other offset has just been accepted
C27_Witness ==
  \E o \in Offsets, o2 \in Offsets :
    /\ o # o2
    /\ WasAborted(o)
    /\ mempool[o] # NoComputation
    /\ mempool[o2] # NoComputation
    /\ history[o2] = <<>>
    /\ ret.result = "Ok"
    /\ ret.emitted # {}

(***************************************************************************)
(* Further properties of the reserve ledger                                *)
(***************************************************************************)
\* C28: after any sequence of ledger instructions total_burned is at most
\* total_minted.
C28_BurnedWithinMinted ==
  config.exists => ~LessBytes(config.total_minted, config.total_burned)

\* the part of C28 that holds on every build: a step that does not return Ok
\* leaves total_minted and total_burned (and everything else) as they were
FailedStepChangesNothing ==
  [][ledger_ret'.result # "Ok" => LedgerUntouched]_vars

\* the step is a burn that succeeded and left total_burned above what it was
BurnCounted ==
  ledger_ret'.result = "Ok" /\ LessBytes(config.total_burned, config'.total_burned)

\* C29: for calls with the accounts of the bridge (the authority and the mint of
\* Config, a user burning from their own token account).  While paused,
\* mint_zenzec and burn_for_btc fail with BridgePaused and change nothing, and
\* burn_zenzec and burn_and_emit of a positive amount the user holds succeed
\* and increase total_burned.  Paused or not, burn_zenzec and burn_and_emit of
\* amount 0 fail with InvalidAmount and change nothing, as does burn_for_btc
\* when the bridge is not paused.
C29_PauseStopsMintNotBurn ==
  config.exists
    => \A u \in Holders, a \in LedgerAmounts, c \in BOOLEAN :
         /\ config.paused
              => /\ ~ENABLED (mint_zenzec(config.authority, config.mint, u, a, c)
                                /\ ~RejectedWith("BridgePaused"))
                 /\ \A b \in BtcAddresses, p \in BOOLEAN :
                      ~ENABLED (burn_for_btc(u, config.mint, u, a, b, p, c)
                                  /\ ~RejectedWith("BridgePaused"))
         /\ (config.paused /\ a # U64Of(0) /\ ~LessBytes(token_accounts[u], a))
              => /\ ~ENABLED (burn_zenzec(u, config.mint, u, a, c) /\ ~BurnCounted)
                 /\ ~ENABLED (burn_and_emit(u, config.mint, u, a, c) /\ ~BurnCounted)
         /\ a = U64Of(0)
              => /\ ~ENABLED (burn_zenzec(u, config.mint, u, a, c)
                                /\ ~RejectedWith("InvalidAmount"))
                 /\ ~ENABLED (burn_and_emit(u, config.mint, u, a, c)
                                /\ ~RejectedWith("InvalidAmount"))
                 /\ ~config.paused
                      => \A b \in BtcAddresses, p \in BOOLEAN :
                           ~ENABLED (burn_for_btc(u, config.mint, u, a, b, p, c)
                                       /\ ~RejectedWith("InvalidAmount"))

\* the part of C29 that holds on every build: the rejections
PauseAndZeroAmountRejections ==
  config.exists
    => \A u \in Holders, a \in LedgerAmounts, c \in BOOLEAN :
         /\ config.paused
              => /\ ~ENABLED (mint_zenzec(config.authority, config.mint, u, a, c)
                                /\ ~RejectedWith("BridgePaused"))
                 /\ \A b \in BtcAddresses, p \in BOOLEAN :
                      ~ENABLED (burn_for_btc(u, config.mint, u, a, b, p, c)
                                  /\ ~RejectedWith("BridgePaused"))
         /\ a = U64Of(0)
              => /\ ~ENABLED (burn_zenzec(u, config.mint, u, a, c)
                                /\ ~RejectedWith("InvalidAmount"))
                 /\ ~ENABLED (burn_and_emit(u, config.mint, u, a, c)
                                /\ ~RejectedWith("InvalidAmount"))
                 /\ ~config.paused
                      => \A b \in BtcAddresses, p \in BOOLEAN :
                           ~ENABLED (burn_for_btc(u, config.mint, u, a, b, p, c)
                                       /\ ~RejectedWith("InvalidAmount"))

\* a burn of a positive amount the user holds succeeds while the bridge is
\* paused, in a state where the addition to total_burned stays in range
PausedBurnSucceeds ==
  (config.exists /\ config.paused)
    => \A u \in Holders, a \in LedgerAmounts, c \in BOOLEAN :
         (a # U64Of(0) /\ ~LessBytes(token_accounts[u], a)
            /\ AddCarry(config.total_burned, a, 1, 0)[U64Len + 1] = 0)
           => /\ ~ENABLED (burn_zenzec(u, config.mint, u, a, c) /\ ~BurnCounted)
              /\ ~ENABLED (burn_and_emit(u, config.mint, u, a, c) /\ ~BurnCounted)

\* the fields of Config that only initialize_config sets
FixedFields == {"authority", "mint", "reserve_asset", "bootstrap_btc", "bootstrap_zec"}

\* once Config exists, no initialize_config succeeds
InitializeOnce ==
  config.exists
    => \A k \in Keys, m \in MintKeys, mx \in MaxMints, bb \in BootstrapBtc,
          bz \in BootstrapZec, ra \in ReserveAsset :
         ~ENABLED (initialize_config(k, m, mx, bb, bz, ra) /\ ~Rejected)

\* a step from a state with a Config keeps the Config and its fixed fields
FixedFieldsKept ==
  config.exists => (config'.exists /\ \A f \in FixedFields : config'[f] = config[f])

\* a step does not lower btc_reserve or zec_reserve
ReservesNotLowered ==
  (config.exists /\ config'.exists)
    => /\ ~LessBytes(config'.btc_reserve, config.btc_reserve)
       /\ ~LessBytes(config'.zec_reserve, config.zec_reserve)

\* C30: authority, mint, reserve_asset, bootstrap_btc and bootstrap_zec keep the
\* values initialize_config gave them, initialize_config succeeds once only, and
\* btc_reserve and zec_reserve never decrease.
C30_ConfigFixedReservesGrow ==
  []InitializeOnce /\ [][FixedFieldsKept /\ ReservesNotLowered]_vars

\* the part of C30 that holds on every build
ConfigFixedInitializedOnce ==
  []InitializeOnce /\ [][FixedFieldsKept]_vars

=============================================================================
